---- MODULE Spec2Model ----
(***************************************************************************)
(* mirror2s3: Mirror.Run mirrors the tree of `git archive HEAD` into a     *)
(* blob bucket, uploading the entries whose MD5 differs from the checksum  *)
(* the bucket lists for the same key.                                      *)
(*                                                                         *)
(* The model follows Run statement by statement.  The bucket and the git   *)
(* process are the environment: every call into them may fail, a stored    *)
(* object may or may not report an MD5 (blob.ListObject.MD5 is nil when    *)
(* the store has none), and an upload that reports an error may or may not *)
(* have stored the object.  The archive lists each path once, in tree      *)
(* order, as git writes it.  A caller may call Run a second time.          *)
(***************************************************************************)
EXTENDS Integers, Sequences, FiniteSets, TLC

\* Contents are 0..MaxContent.
MaxContent == 2

\* The paths of the tree and the keys of the bucket, in lexicographic order
\* (the order of a git tree and of a bucket listing).
Names == <<".gitignore", "a.css", "b">>

NameSet == {Names[i] : i \in 1..Len(Names)}

Contents == 0..MaxContent

IgnoredFiles == {".gitignore"}

TypeReg == "0"

TypeDir == "5"

\* md5.Sum: a fixed function of the content with fewer values than contents,
\* so that two different contents can carry the same sum.
Md5Sum(data) == data % 2

\* path.Ext: the suffix from the last dot of the last path element.
Ext(name) ==
    CASE name = "a.css" -> ".css"
      [] name = ".gitignore" -> ".gitignore"
      [] OTHER -> ""

\* mime.TypeByExtension: "" when the extension is not known.
TypeByExtension(ext) == IF ext = ".css" THEN "text/css; charset=utf-8" ELSE ""

\* The *blob.WriterOptions Run passes to WriteAll: nil ("") when no type is known.
WriterOptions(name) == TypeByExtension(Ext(name))

VARIABLES
    pc,          \* where Run is: "start", "list", "tar", "loop", "returned", "exited"
    err,         \* the error Run returned (or the fatal log), "nil" if none
    bucket,      \* the store: key -> [data, hasMD5]
    handle,      \* the *blob.Bucket: "none", "open", "closed"
    hashes,      \* the map key -> MD5 built from the listing
    itr,         \* the number of objects the list iterator has returned
    archive,     \* the entries of `git archive HEAD`: <<[Name, Typeflag, data]>>
    r,           \* the number of headers the tar reader has returned
    gitStarted,  \* cmd.Start succeeded in this run
    listed,      \* bucket.List was called in this run
    reads,       \* the indices of the entries ioutil.ReadAll was called on
    uploads,     \* the WriteAll calls of this run, in order
    run,         \* 1 for the first call of Run, 2 for the second
    bucket0      \* the store when this call of Run began

vars == <<pc, err, bucket, handle, hashes, itr, archive, r, gitStarted, listed,
          reads, uploads, run, bucket0>>

Objects == [data : Contents, hasMD5 : BOOLEAN]

NoEntry == [Typeflag |-> "none", data |-> 0]

\* What the tree holds under one path: nothing, a directory, or a regular file.
EntryKinds ==
    {NoEntry, [Typeflag |-> TypeDir, data |-> 0]}
        \cup [Typeflag : {TypeReg}, data : Contents]

\* The tar stream of a tree: its paths in order, each once.
TarOf(tree) ==
    SelectSeq([i \in 1..Len(Names) |->
                  [Name |-> Names[i], Typeflag |-> tree[i].Typeflag, data |-> tree[i].data]],
              LAMBDA e : e.Typeflag # "none")

\* The keys bucket.List returns, in order.
ListKeys(b) == SelectSeq(Names, LAMBDA k : k \in DOMAIN b)

\* Put that keeps the object already stored under the key.
PutKeepsOld(b, key, obj) ==
    [k \in DOMAIN b \cup {key} |-> IF k = key /\ k \notin DOMAIN b THEN obj ELSE b[k]]

\* Put that replaces the store by the one object.
PutDropsOthers(b, key, obj) == [k \in {key} |-> obj]

\* The store after an object was written under key.
Put(b, key, obj) == [k \in DOMAIN b \cup {key} |-> IF k = key THEN obj ELSE b[k]]

EmptyMap == [k \in {} |-> 0]

Init ==
    /\ pc = "start"
    /\ err = "nil"
    /\ \E keys \in SUBSET NameSet : bucket \in [keys -> Objects]
    /\ bucket0 = bucket
    /\ handle = "none"
    /\ hashes = EmptyMap
    /\ itr = 0
    /\ \E tree \in [1..Len(Names) -> EntryKinds] : archive = TarOf(tree)
    /\ r = 0
    /\ gitStarted = FALSE
    /\ listed = FALSE
    /\ reads = {}
    /\ uploads = <<>>
    /\ run = 1

\* Return without the deferred Close.
ReturnNoClose(e) ==
    /\ pc' = "returned"
    /\ err' = e
    /\ handle' = handle

\* Run returns e; the deferred bucket.Close runs if the defer was registered.
Return(e) ==
    /\ pc' = "returned"
    /\ err' = e
    /\ handle' = IF handle = "open" THEN "closed" ELSE handle

\* blob.OpenBucket succeeds; defer bucket.Close(); hashes := {}; itr := bucket.List(nil)
OpenBucket ==
    /\ pc = "start"
    /\ pc' = "list"
    /\ handle' = "open"
    /\ hashes' = EmptyMap
    /\ itr' = 0
    /\ listed' = TRUE
    /\ UNCHANGED <<err, bucket, archive, r, gitStarted, reads, uploads, run, bucket0>>

\* blob.OpenBucket fails: return "open bucket: ..."
OpenBucketFail ==
    /\ pc = "start"
    /\ Return("open bucket")
    /\ UNCHANGED <<bucket, hashes, itr, archive, r, gitStarted, listed, reads, uploads,
                   run, bucket0>>

\* ListObject that records no sum at all.
ListObjectRecordsNothing ==
    /\ pc = "list"
    /\ itr < Len(ListKeys(bucket))
    /\ hashes' = hashes
    /\ itr' = itr + 1
    /\ UNCHANGED <<pc, err, bucket, handle, archive, r, gitStarted, listed, reads, uploads,
                   run, bucket0>>

\* ListObject without the nil test: the sum of the stored bytes is recorded for
\* every object.
ListObjectNoNilTest ==
    /\ pc = "list"
    /\ itr < Len(ListKeys(bucket))
    /\ LET key == ListKeys(bucket)[itr + 1]
           obj == bucket[key]
       IN  hashes' = [k \in DOMAIN hashes \cup {key} |->
                         IF k = key THEN Md5Sum(obj.data) ELSE hashes[k]]
    /\ itr' = itr + 1
    /\ UNCHANGED <<pc, err, bucket, handle, archive, r, gitStarted, listed, reads, uploads,
                   run, bucket0>>

\* itr.Next returns an object: record its MD5 if it has one.
ListObject ==
    /\ pc = "list"
    /\ itr < Len(ListKeys(bucket))
    /\ LET key == ListKeys(bucket)[itr + 1]
           obj == bucket[key]
       IN  hashes' = IF obj.hasMD5
                     THEN [k \in DOMAIN hashes \cup {key} |->
                              IF k = key THEN Md5Sum(obj.data) ELSE hashes[k]]
                     ELSE hashes
    /\ itr' = itr + 1
    /\ UNCHANGED <<pc, err, bucket, handle, archive, r, gitStarted, listed, reads, uploads,
                   run, bucket0>>

\* itr.Next returns io.EOF: leave the listing loop.
ListEOF ==
    /\ pc = "list"
    /\ itr = Len(ListKeys(bucket))
    /\ pc' = "tar"
    /\ UNCHANGED <<err, bucket, handle, hashes, itr, archive, r, gitStarted, listed, reads,
                   uploads, run, bucket0>>

\* itr.Next returns another error: log.Fatal ends the process, no defer runs.
ListFatal ==
    /\ pc = "list"
    /\ pc' = "exited"
    /\ err' = "list"
    /\ UNCHANGED <<bucket, handle, hashes, itr, archive, r, gitStarted, listed, reads,
                   uploads, run, bucket0>>

\* getSiteTar succeeds: git is running, the tar reader is at the first header.
GetSiteTar ==
    /\ pc = "tar"
    /\ pc' = "loop"
    /\ gitStarted' = TRUE
    /\ r' = 0
    /\ UNCHANGED <<err, bucket, handle, hashes, itr, archive, listed, reads, uploads,
                   run, bucket0>>

\* getSiteTar's error is dropped and Run goes on to read the archive.
GetSiteTarFailIgnored ==
    /\ pc = "tar"
    /\ pc' = "loop"
    /\ r' = 0
    /\ UNCHANGED <<err, bucket, handle, hashes, itr, archive, gitStarted, listed, reads,
                   uploads, run, bucket0>>

\* cmd.StdoutPipe or cmd.Start fails: return "get site tar: ..."
GetSiteTarFail ==
    /\ pc = "tar"
    /\ Return("get site tar")
    /\ UNCHANGED <<bucket, hashes, itr, archive, r, gitStarted, listed, reads, uploads,
                   run, bucket0>>

\* r.Next returns io.EOF: return nil.
TarEOF ==
    /\ pc = "loop"
    /\ r = Len(archive)
    /\ Return("nil")
    /\ UNCHANGED <<bucket, hashes, itr, archive, r, gitStarted, listed, reads, uploads,
                   run, bucket0>>

\* r.Next returns another error (the stream broke): return "get next file in tar: ..."
TarNextFail ==
    /\ pc = "loop"
    /\ Return("get next file in tar")
    /\ UNCHANGED <<bucket, hashes, itr, archive, r, gitStarted, listed, reads, uploads,
                   run, bucket0>>

\* The entry r.Next returns in this iteration.
Header == archive[r + 1]

\* header.Typeflag != tar.TypeReg: continue
SkipNonRegular ==
    /\ pc = "loop"
    /\ r < Len(archive)
    /\ Header.Typeflag # TypeReg
    /\ r' = r + 1
    /\ UNCHANGED <<pc, err, bucket, handle, hashes, itr, archive, gitStarted, listed, reads,
                   uploads, run, bucket0>>

\* header.Name is in IgnoredFiles: continue
SkipIgnored ==
    /\ pc = "loop"
    /\ r < Len(archive)
    /\ Header.Typeflag = TypeReg
    /\ Header.Name \in IgnoredFiles
    /\ r' = r + 1
    /\ UNCHANGED <<pc, err, bucket, handle, hashes, itr, archive, gitStarted, listed, reads,
                   uploads, run, bucket0>>

\* Considered without the IgnoredFiles test.
ConsideredNoIgnoreTest ==
    /\ pc = "loop"
    /\ r < Len(archive)
    /\ Header.Typeflag = TypeReg

\* Considered without the Typeflag test.
ConsideredNoTypeTest ==
    /\ pc = "loop"
    /\ r < Len(archive)
    /\ Header.Name \notin IgnoredFiles

\* The entry passes both filters and ioutil.ReadAll is called on it.
Considered ==
    /\ pc = "loop"
    /\ r < Len(archive)
    /\ Header.Typeflag = TypeReg
    /\ Header.Name \notin IgnoredFiles

\* ioutil.ReadAll fails: return `read file "name": ...`
ReadFail ==
    /\ Considered
    /\ r' = r + 1
    /\ reads' = reads \cup {r + 1}
    /\ Return("read file")
    /\ UNCHANGED <<bucket, hashes, itr, archive, gitStarted, listed, uploads, run, bucket0>>

\* SameSum without the comparison: any key the index holds is skipped.
SameSumKeyOnly(name, data) == name \in DOMAIN hashes

\* hashes has the name and the sums are equal.
SameSum(name, data) == name \in DOMAIN hashes /\ Md5Sum(data) = hashes[name]

\* The sums are equal: log "skipping", continue
SkipSame ==
    /\ Considered
    /\ SameSum(Header.Name, Header.data)
    /\ r' = r + 1
    /\ reads' = reads \cup {r + 1}
    /\ UNCHANGED <<pc, err, bucket, handle, hashes, itr, archive, gitStarted, listed,
                   uploads, run, bucket0>>

\* One call of bucket.WriteAll, as the run records it.
WriteCall(ok) ==
    [Key |-> Header.Name, data |-> Header.data, ContentType |-> WriterOptions(Header.Name),
     ok |-> ok]

\* bucket.WriteAll succeeds: the object is stored; the store decides whether it
\* will report an MD5 for it.
Upload ==
    /\ Considered
    /\ ~SameSum(Header.Name, Header.data)
    /\ r' = r + 1
    /\ reads' = reads \cup {r + 1}
    /\ uploads' = Append(uploads, WriteCall(TRUE))
    /\ \E md5 \in BOOLEAN :
           bucket' = Put(bucket, Header.Name, [data |-> Header.data, hasMD5 |-> md5])
    /\ UNCHANGED <<pc, err, handle, hashes, itr, archive, gitStarted, listed, run, bucket0>>

\* UploadFail that logs the error and continues with the next entry.
UploadFailContinue ==
    /\ Considered
    /\ ~SameSum(Header.Name, Header.data)
    /\ r' = r + 1
    /\ reads' = reads \cup {r + 1}
    /\ uploads' = Append(uploads, WriteCall(FALSE))
    /\ bucket' = bucket
    /\ UNCHANGED <<pc, err, handle, hashes, itr, archive, gitStarted, listed, run, bucket0>>

\* bucket.WriteAll fails: return "upload file: ...".  The object was stored or not.
UploadFail ==
    /\ Considered
    /\ ~SameSum(Header.Name, Header.data)
    /\ r' = r + 1
    /\ reads' = reads \cup {r + 1}
    /\ uploads' = Append(uploads, WriteCall(FALSE))
    /\ \/ bucket' = bucket
       \/ \E md5 \in BOOLEAN :
              bucket' = Put(bucket, Header.Name, [data |-> Header.data, hasMD5 |-> md5])
    /\ Return("upload file")
    /\ UNCHANGED <<hashes, itr, archive, gitStarted, listed, run, bucket0>>

\* Run returned nil and the caller calls it again on the same Mirror, the tree
\* unchanged.
Rerun ==
    /\ pc = "returned"
    /\ err = "nil"
    /\ run = 1
    /\ run' = 2
    /\ pc' = "start"
    /\ err' = "nil"
    /\ handle' = "none"
    /\ hashes' = EmptyMap
    /\ itr' = 0
    /\ r' = 0
    /\ gitStarted' = FALSE
    /\ listed' = FALSE
    /\ reads' = {}
    /\ uploads' = <<>>
    /\ bucket0' = bucket
    /\ UNCHANGED <<bucket, archive>>

Next ==
    \/ OpenBucket
    \/ OpenBucketFail
    \/ ListObject
    \/ ListEOF
    \/ ListFatal
    \/ GetSiteTar
    \/ GetSiteTarFail
    \/ TarEOF
    \/ TarNextFail
    \/ SkipNonRegular
    \/ SkipIgnored
    \/ ReadFail
    \/ SkipSame
    \/ Upload
    \/ UploadFail
    \/ Rerun

Spec == Init /\ [][Next]_vars

----
\* Vocabulary of the properties.

\* Run reached the end of the archive and returned nil.
Done == pc = "returned" /\ err = "nil"

Entries == 1..Len(archive)

\* Entry i is a regular file that is not ignored.
Eligible(i) == archive[i].Typeflag = TypeReg /\ archive[i].Name \notin IgnoredFiles

\* The index has no sum for entry i, or a sum other than the entry's.
Differs(i) ==
    \/ archive[i].Name \notin DOMAIN hashes
    \/ Md5Sum(archive[i].data) # hashes[archive[i].Name]

\* The WriteAll calls made under key.
CallsOf(key) == {j \in 1..Len(uploads) : uploads[j].Key = key}

UploadedKeys == {uploads[j].Key : j \in 1..Len(uploads)}

\* The content stored under each key.
DataOf(b) == [k \in DOMAIN b |-> b[k].data]

\* The keys whose object reports no MD5.
NoSum(b) == {k \in DOMAIN b : ~b[k].hasMD5}

\* The content of the store after the uploads the first n entries call for.
MirroredUpTo(n) ==
    LET due == {i \in 1..n : Eligible(i) /\ Differs(i)}
        dueKeys == {archive[i].Name : i \in due}
    IN  [k \in DOMAIN bucket0 \cup dueKeys |->
            IF k \in dueKeys
            THEN archive[CHOOSE i \in due : archive[i].Name = k].data
            ELSE bucket0[k].data]

\* C1: when Run has returned nil, an eligible entry whose key the index holds
\* was uploaded if and only if its MD5 differs from the indexed sum.
C1_UploadIffDiffers ==
    Done =>
        \A i \in Entries :
            (Eligible(i) /\ archive[i].Name \in DOMAIN hashes) =>
                (archive[i].Name \in UploadedKeys
                     <=> Md5Sum(archive[i].data) # hashes[archive[i].Name])

\* Both cases in one run: one indexed key uploaded, one indexed key skipped
\* although the stored content is not the local content.
C1_Witness ==
    /\ Done
    /\ \E i, j \in Entries :
           /\ Eligible(i) /\ Eligible(j)
           /\ archive[i].Name \in DOMAIN hashes /\ archive[j].Name \in DOMAIN hashes
           /\ archive[i].Name \in UploadedKeys
           /\ archive[j].Name \notin UploadedKeys
           /\ bucket[archive[j].Name].data # archive[j].data

\* C2 as stated: the second of two successive runs makes no upload.
C2_SecondRunUploadsNothing == run = 2 => uploads = <<>>

\* C2 amended: the second of two successive runs uploads only keys whose
\* object, as the first run left it, reports no MD5; an eligible entry whose
\* object reports one is not uploaded again.
C2_SecondRunUploadsOnlyUnsummed ==
    run = 2 =>
        /\ UploadedKeys \subseteq NoSum(bucket0)
        /\ Done => \A i \in Entries :
                       Eligible(i) => (archive[i].Name \in UploadedKeys
                                          <=> archive[i].Name \in NoSum(bucket0))

\* A second run that skipped one entry and uploaded another again.
C2_Witness ==
    /\ run = 2
    /\ Done
    /\ \E i, j \in Entries :
           /\ Eligible(i) /\ Eligible(j)
           /\ archive[i].Name \notin UploadedKeys
           /\ archive[j].Name \in UploadedKeys

\* C3: when Run has returned nil, every eligible entry whose key the index
\* lacks or whose MD5 differs from the indexed sum was uploaded exactly once,
\* with its content, and the store holds that content under its key.
C3_OneUploadWithContent ==
    Done =>
        \A i \in Entries :
            (Eligible(i) /\ Differs(i)) =>
                /\ Cardinality(CallsOf(archive[i].Name)) = 1
                /\ \A j \in CallsOf(archive[i].Name) :
                       uploads[j].ok /\ uploads[j].data = archive[i].data
                /\ archive[i].Name \in DOMAIN bucket
                /\ bucket[archive[i].Name].data = archive[i].data

\* A run that created one object and replaced the content of another.
C3_Witness ==
    /\ Done
    /\ \E i, j \in Entries :
           /\ Eligible(i) /\ Eligible(j)
           /\ archive[i].Name \notin DOMAIN bucket0
           /\ archive[i].Name \in UploadedKeys
           /\ archive[j].Name \in DOMAIN hashes
           /\ bucket0[archive[j].Name].data # archive[j].data
           /\ archive[j].Name \in UploadedKeys

\* C4: at every point of a run, every key the store held when the run began
\* is still held, and a key no WriteAll was called on holds what it held.
C4_NoDeletion ==
    \A k \in DOMAIN bucket0 :
        /\ k \in DOMAIN bucket
        /\ k \notin UploadedKeys => bucket[k] = bucket0[k]

\* A run that wrote one object and ended while the store holds a key that is
\* not a path of the tree.
C4_Witness ==
    /\ pc = "returned"
    /\ uploads # <<>>
    /\ \E k \in DOMAIN bucket0 : \A i \in Entries : archive[i].Name # k

\* C5: no WriteAll is called on a name of IgnoredFiles, and the object under
\* such a key stays as it was.
C5_IgnoredNeverUploaded ==
    /\ ".gitignore" \in IgnoredFiles
    /\ \A k \in IgnoredFiles :
           /\ k \notin UploadedKeys
           /\ k \in DOMAIN bucket0 => (k \in DOMAIN bucket /\ bucket[k] = bucket0[k])
           /\ k \notin DOMAIN bucket0 => k \notin DOMAIN bucket

\* The run ended with a regular .gitignore in the tree whose sum differs from
\* the indexed one.
C5_Witness ==
    /\ Done
    /\ \E i \in Entries :
           /\ archive[i].Name = ".gitignore"
           /\ archive[i].Typeflag = TypeReg
           /\ ".gitignore" \in DOMAIN hashes
           /\ Md5Sum(archive[i].data) # hashes[".gitignore"]

\* C6: ReadAll and WriteAll are called on regular-file entries only.
C6_OnlyRegularFiles ==
    /\ \A i \in reads : i \in Entries /\ archive[i].Typeflag = TypeReg
    /\ \A k \in UploadedKeys :
           \E i \in Entries : archive[i].Name = k /\ archive[i].Typeflag = TypeReg
    /\ \A i \in Entries :
           archive[i].Typeflag # TypeReg => archive[i].Name \notin UploadedKeys

\* The run ended with a directory in the tree whose name is no key of the store.
C6_Witness ==
    /\ Done
    /\ \E i \in Entries :
           /\ archive[i].Typeflag = TypeDir
           /\ archive[i].Name \notin IgnoredFiles
           /\ archive[i].Name \notin DOMAIN bucket

\* C7: the index never holds a key whose object reports no MD5, and when Run
\* has returned nil every eligible entry under such a key was uploaded.
C7_UnsummedAlwaysUploaded ==
    /\ DOMAIN hashes \subseteq DOMAIN bucket0 \ NoSum(bucket0)
    /\ Done =>
           \A i \in Entries :
               (Eligible(i) /\ archive[i].Name \in NoSum(bucket0)) =>
                   \E j \in CallsOf(archive[i].Name) :
                       uploads[j].ok /\ uploads[j].data = archive[i].data

\* The second run uploaded an entry whose content is the stored content.
C7_Witness ==
    /\ run = 2
    /\ Done
    /\ \E i \in Entries :
           /\ Eligible(i)
           /\ archive[i].Name \in NoSum(bucket0)
           /\ bucket0[archive[i].Name].data = archive[i].data
           /\ archive[i].Name \in UploadedKeys

\* C8: once Run has returned, the handle is closed unless OpenBucket failed;
\* the handle is left open at the end only when the listing failure ended
\* the process.
C8_HandleClosed ==
    /\ pc = "returned" => handle = (IF err = "open bucket" THEN "none" ELSE "closed")
    /\ pc = "exited" => (err = "list" /\ handle = "open")
    /\ (handle = "open" /\ pc \notin {"list", "tar", "loop"}) => pc = "exited"

\* Run returned the upload error with the handle closed.
C8_Witness == pc = "returned" /\ err = "upload file" /\ handle = "closed"

\* The errors of the archive loop.
LoopErrors == {"get next file in tar", "read file", "upload file"}

\* The number of entries before the one Run failed on.
Before == IF err = "get next file in tar" THEN r ELSE r - 1

\* C9: a WriteAll that failed is the last call of a run that returned the
\* upload error, and no key has two calls; when Run has returned an error of
\* the archive loop, ReadAll was called on no entry after the failing one,
\* the calls that succeeded are the ones the entries before the failing one
\* call for, and the store holds what those uploads produce (with or without
\* the failing one).
C9_FailStop ==
    /\ \A j \in 1..Len(uploads) :
           ~uploads[j].ok =>
               (pc = "returned" /\ err = "upload file" /\ j = Len(uploads))
    /\ \A k \in UploadedKeys : Cardinality(CallsOf(k)) = 1
    /\ (pc = "returned" /\ err \in LoopErrors) =>
           /\ reads \subseteq 1..r
           /\ {uploads[j].Key : j \in {n \in 1..Len(uploads) : uploads[n].ok}}
                  = {archive[i].Name : i \in {n \in 1..Before : Eligible(n) /\ Differs(n)}}
           /\ err = "upload file" =>
                  (~uploads[Len(uploads)].ok /\ uploads[Len(uploads)].Key = archive[r].Name)
           /\ err # "upload file" => \A j \in 1..Len(uploads) : uploads[j].ok
           /\ \/ DataOf(bucket) = MirroredUpTo(Before)
              \/ err = "upload file" /\ DataOf(bucket) = MirroredUpTo(r)

\* The second upload of a run failed and the first one is in the store.
C9_Witness ==
    /\ pc = "returned"
    /\ err = "upload file"
    /\ Len(uploads) = 2
    /\ uploads[1].Key \notin DOMAIN bucket0
    /\ uploads[1].Key \in DOMAIN bucket
    /\ bucket[uploads[1].Key].data = uploads[1].data

\* C10: a WriteAll is called only with the bucket opened, the listing at its
\* end and git started; when Run has returned the open-bucket error there was
\* no listing, no git process and no upload, when it has returned the
\* get-site-tar error there was no upload, and in both cases the store is as
\* it was.
C10_NoUploadBeforeSetup ==
    /\ (uploads # <<>> \/ pc = "loop") =>
           /\ handle # "none"
           /\ listed
           /\ itr = Len(ListKeys(bucket0))
           /\ gitStarted
    /\ (pc = "returned" /\ err = "open bucket") =>
           (~listed /\ ~gitStarted /\ uploads = <<>> /\ bucket = bucket0)
    /\ (pc = "returned" /\ err = "get site tar") =>
           (uploads = <<>> /\ bucket = bucket0)

\* Run returned the get-site-tar error with an entry in the tree that calls
\* for an upload.
C10_Witness ==
    /\ pc = "returned"
    /\ err = "get site tar"
    /\ \E i \in Entries : Eligible(i) /\ Differs(i)

====
